---- MODULE Spec2Model ----
(***************************************************************************)
(* Model of rag/ingest.py: the text chunker (chunk_text), the embedding    *)
(* call (embed_batch), the Qdrant REST client (ensure_collection,          *)
(* qdrant_upsert), the per-document pipeline (ingest_doc) and the batch    *)
(* driver (__main__).                                                      *)
(*                                                                         *)
(* Three specifications share the definitions:                             *)
(*   Spec          one batch run, from module import to DONE or a raise    *)
(*   ChunkSpec     chunk_text called on its own with arbitrary arguments   *)
(*                 (FairChunkSpec: the same, the interpreter keeps running) *)
(*   EnsureSpec    two processes calling ensure_collection against the     *)
(*                 same index service, each up to MaxCalls times           *)
(***************************************************************************)
EXTENDS Integers, Sequences, FiniteSets, TLC

\* ------------------------------------------------------------------ bounds
MaxLen == 3
MaxParam == 3
MaxDocs == 2
MaxDocLen == 1
MaxVecs == 2
MaxCalls == 2
\* chunks emitted beyond this many are not recorded (the list of a run that
\* returns is shorter: at most one chunk per character when the window advances)
MaxChunks == MaxLen + 2

\* --------------------------------------------------------------- constants
DefaultMaxChars == 800
DefaultOverlap == 200
EMBED_DIMS == 384
COLLECTION == "training_chunks"
OtherCollection == "other"

Runs == {"A", "B"}
Main == "A"

Chars == {"a", "b", " ", "\n"}
IsSpace(c) == c \in {" ", "\n"}

Min(a, b) == IF a < b THEN a ELSE b

SeqsUpTo(S, n) == UNION {[1..k -> S] : k \in 0..n}

VARIABLES
  \* module-level configuration and the files glob finds
  provider, openaiKey, hfToken, ndocs,
  \* the index service
  collections, points,
  \* each run: position, last list result, requests sent, errors raised,
  \* result of each ensure_collection call
  pc, listed, reqs, errs, outcomes,
  \* chunk_text's frame; starts holds the offset of each recorded chunk and
  \* laps the parity of the number of loop iterations executed
  raw, text, max_chars, overlap, i, chunks, starts, laps, cpc,
  \* ingest_doc's frame and what the run printed
  doc, data, vectors, sent, reported

cfgVars == <<provider, openaiKey, hfToken, ndocs>>
svcVars == <<collections, points>>
runVars == <<pc, listed, reqs, errs, outcomes>>
chunkVars == <<raw, text, max_chars, overlap, i, chunks, starts, laps, cpc>>
docVars == <<doc, data, vectors, sent, reported>>
vars == <<cfgVars, svcVars, runVars, chunkVars, docVars>>

\* ------------------------------------------------------------ text chunking

RECURSIVE DropSpaces(_)
DropSpaces(s) ==
  IF s # <<>> /\ IsSpace(Head(s)) THEN DropSpaces(Tail(s)) ELSE s

\* re.sub(r"\s+", " ", text): every maximal run of whitespace becomes one space
RECURSIVE Collapse(_)
Collapse(s) ==
  IF s = <<>> THEN <<>>
  ELSE IF IsSpace(Head(s)) THEN <<" ">> \o Collapse(DropSpaces(Tail(s)))
  ELSE <<Head(s)>> \o Collapse(Tail(s))

RECURSIVE DropTrailingSpaces(_)
DropTrailingSpaces(s) ==
  IF s # <<>> /\ IsSpace(s[Len(s)])
  THEN DropTrailingSpaces(SubSeq(s, 1, Len(s) - 1)) ELSE s

\* str.strip()
Strip(s) == DropTrailingSpaces(DropSpaces(s))

Normalize(s) == Strip(Collapse(s))

\* text[a:b] for 0 <= a <= b <= len(text)
Slice(s, a, b) == SubSeq(s, a + 1, b)

\* chunk_text is entered: the text is normalised, chunks = [], i = 0
ChunkEnter ==
  /\ cpc = "call"
  /\ text' = Normalize(raw)
  /\ chunks' = <<>>
  /\ starts' = <<>>
  /\ laps' = 0
  /\ i' = 0
  /\ cpc' = "loop"
  /\ UNCHANGED <<raw, max_chars, overlap>>
  /\ UNCHANGED <<cfgVars, svcVars, runVars, docVars>>

\* one iteration of the while loop
ChunkIter ==
  /\ cpc = "loop"
  /\ i < Len(text)
  /\ LET j == Min(i + max_chars, Len(text))
     IN /\ chunks' = IF Len(chunks) < MaxChunks
                     THEN Append(chunks, Slice(text, i, j)) ELSE chunks
        /\ starts' = IF Len(starts) < MaxChunks THEN Append(starts, i) ELSE starts
        /\ i' = IF j - overlap < 0 THEN 0 ELSE j - overlap
  /\ laps' = (laps + 1) % 2
  /\ UNCHANGED <<raw, text, max_chars, overlap, cpc>>
  /\ UNCHANGED <<cfgVars, svcVars, runVars, docVars>>

\* the loop condition fails: return chunks
ChunkReturn ==
  /\ cpc = "loop"
  /\ i >= Len(text)
  /\ cpc' = "done"
  /\ UNCHANGED <<raw, text, max_chars, overlap, i, chunks, starts, laps>>
  /\ UNCHANGED <<cfgVars, svcVars, runVars, docVars>>

\* --------------------------------------------------------- the index service

Names(cols) == {c.name : c \in cols}

\* requests.Response.raise_for_status(): raises on a 4xx or 5xx status
raise_for_status(status) == status >= 400

\* GET /collections: answered, or a server fault
ListReplies == {200, 500}

\* PUT /collections/{name}: the service creates an absent collection, refuses
\* to create one that exists (Qdrant answers "already exists" with a 4xx
\* status), and may fail with a server fault either way
CreateReplies(cols) ==
  IF COLLECTION \in Names(cols) THEN {409, 500} ELSE {200, 500}

\* PUT /collections/{name}/points
UpsertReplies == {200, 500}

\* ------------------------------------------------------- ensure_collection

\* the exception is caught and the run carries on as if the collection existed
EnsureRaise_Swallowed(r, cause) ==
  /\ pc' = [pc EXCEPT ![r] = "ensured"]
  /\ errs' = [errs EXCEPT ![r] = Append(@, cause)]
  /\ outcomes' = [outcomes EXCEPT ![r] = Append(@, "raised")]

\* an exception leaves ensure_collection: nothing in the module catches it
EnsureRaise(r, cause) ==
  /\ pc' = [pc EXCEPT ![r] = "failed"]
  /\ errs' = [errs EXCEPT ![r] = Append(@, cause)]
  /\ outcomes' = [outcomes EXCEPT ![r] = Append(@, "raised")]

\* ensure_collection returns normally
EnsureReturn(r) ==
  /\ pc' = [pc EXCEPT ![r] = "ensured"]
  /\ errs' = errs
  /\ outcomes' = [outcomes EXCEPT ![r] = Append(@, "ok")]

\* ensure_collection without the membership test: it always creates
NeedsCreate_Always(names) == TRUE

\* "if COLLECTION not in cols"
NeedsCreate(names) == COLLECTION \notin names

\* cols = [c["name"] for c in qdrant_get_collections()], then the test of it
EnsureList(r) ==
  /\ pc[r] = "ensure"
  /\ reqs' = [reqs EXCEPT ![r] = Append(@, "list")]
  /\ \E status \in ListReplies :
       IF raise_for_status(status)
       THEN /\ EnsureRaise(r, "list_http")
            /\ listed' = listed
       ELSE /\ listed' = [listed EXCEPT ![r] = Names(collections)]
            /\ IF NeedsCreate(Names(collections))
               THEN /\ pc' = [pc EXCEPT ![r] = "create"]
                    /\ UNCHANGED <<errs, outcomes>>
               ELSE EnsureReturn(r)
  /\ UNCHANGED <<cfgVars, svcVars, chunkVars, docVars>>

\* qdrant_create_collection()
EnsureCreate(r) ==
  /\ pc[r] = "create"
  /\ reqs' = [reqs EXCEPT ![r] = Append(@, "create")]
  /\ \E status \in CreateReplies(collections) :
       IF raise_for_status(status)
       THEN /\ EnsureRaise(r, IF status = 409 THEN "create_conflict" ELSE "create_http")
            /\ collections' = collections
       ELSE /\ collections' = collections \cup {[name |-> COLLECTION, size |-> EMBED_DIMS]}
            /\ EnsureReturn(r)
  /\ UNCHANGED <<listed, points>>
  /\ UNCHANGED <<cfgVars, chunkVars, docVars>>

\* a caller invokes ensure_collection once more, after a return or a raise
EnsureAgain(r) ==
  /\ pc[r] \in {"ensured", "failed"}
  /\ Len(outcomes[r]) < MaxCalls
  /\ pc' = [pc EXCEPT ![r] = "ensure"]
  /\ UNCHANGED <<listed, reqs, errs, outcomes>>
  /\ UNCHANGED <<cfgVars, svcVars, chunkVars, docVars>>


\* ------------------------------------------------------------ embed_batch

\* the JSON value of the Hugging Face reply: an object, a number, a string, or
\* a list of such values
JDict == [t |-> "dict", v |-> <<>>]
JNum == [t |-> "num", v |-> <<>>]
JStr == [t |-> "str", v |-> <<>>]
JList(items) == [t |-> "list", v |-> items]
NoData == [t |-> "none", v |-> <<>>]

\* one embedding
Vec == JList(<<JNum, JNum>>)
VecBatch(n) == [k \in 1..n |-> Vec]

\* what response.json() may be: {}, [], ["x"], a flat embedding, a batch of
\* 1..MaxVecs embeddings
Replies ==
  {JDict, JList(<<>>), JList(<<JStr>>), Vec} \cup {JList(VecBatch(n)) : n \in 1..MaxVecs}

EmbedReplies == {200, 500}

\* isinstance(x, list), isinstance(x, (int, float))
IsList(x) == x.t = "list"
IsNumber(x) == x.t = "num"

\* the shape inspection of the reply: raised, or the vectors returned
HFDecode(d) ==
  IF IsList(d)
  THEN IF Len(d.v) > 0 /\ IsList(d.v[1])
       THEN [raised |-> FALSE, vectors |-> d.v]
       ELSE IF Len(d.v) > 0 /\ IsNumber(d.v[1])
       THEN [raised |-> FALSE, vectors |-> <<d>>]
       ELSE [raised |-> FALSE, vectors |-> <<>>]
  ELSE [raised |-> TRUE, vectors |-> <<>>]

USE_OPENAI == provider = "openai"
USE_HF == provider = "hf"

\* ----------------------------------------------------------- the batch run

\* the for loop catches the exception and goes on to the next document
DocRaise_Continue(cause) ==
  /\ pc' = [pc EXCEPT ![Main] = "ingested"]
  /\ errs' = [errs EXCEPT ![Main] = Append(@, cause)]

\* an exception leaves ingest_doc: the for loop of __main__ does not catch it
DocRaise(cause) ==
  /\ pc' = [pc EXCEPT ![Main] = "failed"]
  /\ errs' = [errs EXCEPT ![Main] = Append(@, cause)]

\* the module body: the configuration is read, the OpenAI key is checked,
\* then __main__ announces the provider and calls ensure_collection
ImportModule ==
  /\ pc[Main] = "import"
  /\ IF USE_OPENAI /\ ~openaiKey
     THEN /\ pc' = [pc EXCEPT ![Main] = "failed"]
          /\ errs' = [errs EXCEPT ![Main] = Append(@, "config_openai_key")]
     ELSE /\ pc' = [pc EXCEPT ![Main] = "ensure"]
          /\ errs' = errs
  /\ UNCHANGED <<listed, reqs, outcomes>>
  /\ UNCHANGED <<cfgVars, svcVars, chunkVars, docVars>>

\* for path in glob.glob(...): the next document, or print DONE
MainLoop ==
  /\ pc[Main] \in {"ensured", "ingested"}
  /\ IF doc < ndocs
     THEN /\ doc' = doc + 1
          /\ pc' = [pc EXCEPT ![Main] = "read"]
     ELSE /\ doc' = doc
          /\ pc' = [pc EXCEPT ![Main] = "done"]
  /\ UNCHANGED <<listed, reqs, errs, outcomes>>
  /\ UNCHANGED <<data, vectors, sent, reported>>
  /\ UNCHANGED <<cfgVars, svcVars, chunkVars>>

DocTexts == SeqsUpTo(Chars, MaxDocLen)

\* ingest_doc up to its call of chunk_text(text)
ReadDoc ==
  /\ pc[Main] = "read"
  /\ \/ /\ DocRaise("io")
        /\ UNCHANGED chunkVars
     \/ /\ raw' \in DocTexts
        /\ max_chars' = DefaultMaxChars
        /\ overlap' = DefaultOverlap
        /\ cpc' = "call"
        /\ pc' = [pc EXCEPT ![Main] = "chunk"]
        /\ UNCHANGED <<errs, text, i, chunks, starts, laps>>
  /\ UNCHANGED <<listed, reqs, outcomes>>
  /\ UNCHANGED <<cfgVars, svcVars, docVars>>

\* vectors = embed_batch(chunks)
EmbedBatch ==
  /\ pc[Main] = "chunk"
  /\ cpc = "done"
  /\ cpc' = "idle"
  /\ IF USE_OPENAI
     THEN /\ reqs' = [reqs EXCEPT ![Main] = Append(@, "embed")]
          /\ data' = data
          /\ \/ /\ DocRaise("openai_api")
                /\ vectors' = vectors
             \/ /\ \E n \in 0..MaxVecs : vectors' = VecBatch(n)
                /\ pc' = [pc EXCEPT ![Main] = "upsert"]
                /\ errs' = errs
     ELSE IF USE_HF
     THEN IF ~hfToken
          THEN /\ DocRaise("config_hf_token")
               /\ UNCHANGED <<reqs, data, vectors>>
          ELSE /\ reqs' = [reqs EXCEPT ![Main] = Append(@, "embed")]
               /\ \E status \in EmbedReplies :
                    IF raise_for_status(status)
                    THEN /\ DocRaise("embed_http")
                         /\ UNCHANGED <<data, vectors>>
                    ELSE \E d \in Replies :
                           /\ data' = d
                           /\ IF HFDecode(d).raised
                              THEN /\ DocRaise("hf_format")
                                   /\ vectors' = vectors
                              ELSE /\ vectors' = HFDecode(d).vectors
                                   /\ pc' = [pc EXCEPT ![Main] = "upsert"]
                                   /\ errs' = errs
     ELSE /\ DocRaise("config_provider")
          /\ UNCHANGED <<reqs, data, vectors>>
  /\ UNCHANGED <<listed, outcomes, doc, sent, reported>>
  /\ UNCHANGED <<raw, text, max_chars, overlap, i, chunks, starts, laps>>
  /\ UNCHANGED <<cfgVars, svcVars>>

\* zip(chunks, vectors): stops at the shorter of the two
Zip(a, b) == [k \in 1..Min(Len(a), Len(b)) |-> <<a[k], b[k]>>]

\* qdrant_upsert(chunks, vectors, meta), then the "Ingested n chunks" line
Upsert ==
  /\ pc[Main] = "upsert"
  /\ sent' = Len(Zip(chunks, vectors))
  /\ reqs' = [reqs EXCEPT ![Main] = Append(@, "upsert")]
  /\ \E status \in UpsertReplies :
       IF raise_for_status(status)
       THEN /\ DocRaise("upsert_http")
            /\ UNCHANGED <<points, reported>>
       ELSE /\ points' = points + sent'
            /\ reported' = Append(reported, Len(chunks))
            /\ pc' = [pc EXCEPT ![Main] = "ingested"]
            /\ errs' = errs
  /\ UNCHANGED <<listed, outcomes, doc, data, vectors, collections>>
  /\ UNCHANGED <<cfgVars, chunkVars>>

\* ---------------------------------------------------------- initial states

InitialCollections ==
  SUBSET {[name |-> COLLECTION, size |-> EMBED_DIMS],
          [name |-> OtherCollection, size |-> EMBED_DIMS]}

ChunkIdle ==
  /\ raw = <<>> /\ text = <<>>
  /\ max_chars = DefaultMaxChars /\ overlap = DefaultOverlap
  /\ i = 0 /\ chunks = <<>> /\ starts = <<>> /\ laps = 0 /\ cpc = "idle"

DocIdle ==
  /\ doc = 0 /\ data = NoData /\ vectors = <<>> /\ sent = 0 /\ reported = <<>>

RunsFresh ==
  /\ listed = [r \in Runs |-> {}]
  /\ reqs = [r \in Runs |-> <<>>]
  /\ errs = [r \in Runs |-> <<>>]
  /\ outcomes = [r \in Runs |-> <<>>]

ConfigDefault ==
  /\ provider = "hf" /\ openaiKey = TRUE /\ hfToken = TRUE /\ ndocs = 0

\* chunk_text(text, max_chars, overlap) with 0 <= overlap < max_chars
ChunkParams ==
  {<<DefaultMaxChars, DefaultOverlap>>}
    \cup {p \in (1..MaxParam) \X (0..MaxParam) : p[2] < p[1]}

ChunkInit ==
  /\ ConfigDefault
  /\ collections = {} /\ points = 0
  /\ pc = [r \in Runs |-> "off"]
  /\ RunsFresh
  /\ DocIdle
  /\ raw \in SeqsUpTo(Chars, MaxLen)
  /\ \E p \in ChunkParams : max_chars = p[1] /\ overlap = p[2]
  /\ text = <<>> /\ i = 0 /\ chunks = <<>> /\ starts = <<>> /\ laps = 0
  /\ cpc = "call"

ChunkNext == ChunkEnter \/ ChunkIter \/ ChunkReturn

ChunkSpec == ChunkInit /\ [][ChunkNext]_vars

\* the interpreter keeps executing the function until it returns
FairChunkSpec == ChunkSpec /\ WF_vars(ChunkNext)

EnsureInit ==
  /\ ConfigDefault
  /\ collections \in InitialCollections /\ points = 0
  /\ pc = [r \in Runs |-> "ensure"]
  /\ RunsFresh
  /\ ChunkIdle
  /\ DocIdle

EnsureNext == \E r \in Runs : EnsureList(r) \/ EnsureCreate(r) \/ EnsureAgain(r)

EnsureSpec == EnsureInit /\ [][EnsureNext]_vars

Init ==
  /\ provider \in {"openai", "hf", "other"}
  /\ openaiKey \in BOOLEAN
  /\ hfToken \in BOOLEAN
  /\ ndocs \in 0..MaxDocs
  /\ collections \in InitialCollections /\ points = 0
  /\ pc = [r \in Runs |-> IF r = Main THEN "import" ELSE "off"]
  /\ RunsFresh
  /\ ChunkIdle
  /\ DocIdle

Next ==
  \/ ImportModule
  \/ EnsureList(Main)
  \/ EnsureCreate(Main)
  \/ MainLoop
  \/ ReadDoc
  \/ ChunkEnter
  \/ ChunkIter
  \/ ChunkReturn
  \/ EmbedBatch
  \/ Upsert

Spec == Init /\ [][Next]_vars

\* ------------------------------------------------------------------ claims

Count(seq, x) == Cardinality({k \in 1..Len(seq) : seq[k] = x})
Has(seq, x) == \E k \in 1..Len(seq) : seq[k] = x

\* C1 (FairChunkSpec): chunk_text terminates for every text and every pair
\* 0 <= overlap < max_chars: the loop is eventually left and the list returned.
C1_Terminates == <>(cpc = "done")

\* C2 (ChunkSpec): with max_chars = 800 and overlap = 200, a text that
\* normalises to nothing gives no chunk, and a text of normalised length
\* 1..max_chars gives exactly one chunk, the whole normalised text: the list
\* never holds anything else, and is that at the return.
C2_DefaultsShortText ==
  (/\ max_chars = DefaultMaxChars /\ overlap = DefaultOverlap
   /\ cpc \in {"loop", "done"} /\ Len(text) <= max_chars)
  => /\ Len(text) = 0 => chunks = <<>>
     /\ Len(text) >= 1 => chunks \in {<<>>, <<text>>}
     /\ (cpc = "done" /\ Len(text) >= 1) => chunks = <<text>>

\* C3 (ChunkSpec): at every point of the loop the k-th chunk emitted starts at
\* offset k * (max_chars - overlap) (k counted from 0), and every chunk but the
\* last has length exactly max_chars.
C3_ChunkShape ==
  \A k \in 1..Len(chunks) :
    /\ starts[k] = (k - 1) * (max_chars - overlap)
    /\ k < Len(chunks) => Len(chunks[k]) = max_chars

\* C4 (Spec): in the hf branch, once embed_batch has returned after a 2xx
\* reply, the reply was a list whose first element is a list (returned
\* unchanged) or a flat list of numbers (returned as a one-element batch);
\* every other shape raised and returned nothing.
C4_HFDecodeThreeWays ==
  (USE_HF /\ pc[Main] = "upsert")
  => \/ /\ IsList(data) /\ Len(data.v) > 0 /\ IsList(data.v[1])
        /\ vectors = data.v
     \/ /\ IsList(data) /\ Len(data.v) > 0 /\ IsNumber(data.v[1])
        /\ vectors = <<data>>

\* C5 (Spec): when ingest_doc has completed without error, embed_batch
\* returned as many vectors as there are chunks and the upsert request carried
\* one point per chunk, the count ingest_doc reports.
C5_OneVectorPerChunk ==
  pc[Main] = "ingested"
  => /\ Len(vectors) = Len(chunks)
     /\ sent = Len(chunks)
     /\ reported[Len(reported)] = sent

\* C6 (EnsureSpec): ensure_collection sends a create request only when the
\* name was absent from the list it got, and successive calls by one caller,
\* the first having succeeded, send at most one create request in total.
C6_EnsureIdempotent ==
  \A r \in Runs :
    /\ pc[r] = "create" => COLLECTION \notin listed[r]
    /\ (Len(outcomes[r]) >= 1 /\ outcomes[r][1] = "ok")
         => Count(reqs[r], "create") <= 1

\* two calls returned, the first created the collection, the second did not
C6_Witness ==
  \E r \in Runs :
    /\ outcomes[r] = <<"ok", "ok">>
    /\ reqs[r] = <<"list", "create", "list">>

\* C7 (Spec): no embedding and no upsert request is sent before
\* ensure_collection has returned normally; a failed list or create request
\* halts the run with no document started.
C7_EnsureBeforeIngest ==
  /\ \A k \in 1..Len(reqs[Main]) :
       reqs[Main][k] \in {"embed", "upsert"}
         => /\ outcomes[Main] = <<"ok">>
            /\ k > 1 /\ reqs[Main][1] = "list"
  /\ (pc[Main] \in {"read", "chunk", "upsert", "ingested", "done"} \/ doc > 0)
       => outcomes[Main] = <<"ok">>
  /\ (errs[Main] # <<>> /\ errs[Main][1] \in {"list_http", "create_http", "create_conflict"})
       => /\ pc[Main] = "failed"
          /\ doc = 0 /\ reported = <<>>
          /\ ~Has(reqs[Main], "embed") /\ ~Has(reqs[Main], "upsert")

\* the run created the collection, then embedded and upserted a document
C7_Witness ==
  /\ reqs[Main] = <<"list", "create", "embed", "upsert">>
  /\ pc[Main] = "ingested"

\* C8 (Spec): the run is fail-fast. Documents are taken one at a time, in
\* order, each after the previous one was ingested; any error raised ends the
\* run in the terminal failed state and no request follows it; DONE is
\* printed only with every document ingested and no error raised.
C8_FailFast ==
  /\ [](errs[Main] # <<>> => pc[Main] = "failed")
  /\ [](pc[Main] = "done"
          => /\ errs[Main] = <<>>
             /\ doc = ndocs /\ Len(reported) = ndocs
             /\ outcomes[Main] = <<"ok">>)
  /\ [][errs[Main] # <<>> => (reqs' = reqs /\ pc' = pc /\ doc' = doc)]_vars
  /\ [][doc' # doc
          => /\ doc' = doc + 1
             /\ Len(reported) = doc
             /\ pc[Main] \in {"ensured", "ingested"}]_vars
  /\ [][(pc'[Main] = "done" /\ pc[Main] # "done")
          => pc[Main] \in {"ensured", "ingested"}]_vars

\* the first of two documents failed at its upsert: the second is never read
C8_Witness ==
  /\ pc[Main] = "failed"
  /\ errs[Main] = <<"upsert_http">>
  /\ doc = 1 /\ ndocs = 2
  /\ reqs[Main][Len(reqs[Main])] = "upsert"

\* the configuration is in error: the selected provider's credential is
\* missing, or LLM_PROVIDER is neither openai nor hf
ConfigInvalid ==
  \/ USE_OPENAI /\ ~openaiKey
  \/ USE_HF /\ ~hfToken
  \/ ~USE_OPENAI /\ ~USE_HF

\* C9 (Spec): with a configuration error no request of any kind is ever sent.
C9_ConfigErrorBeforeIO == ConfigInvalid => reqs[Main] = <<>>

\* C10 (EnsureSpec): the race of two runs on ensure_collection is harmless:
\* no run fails on a create request because the other run created the
\* collection first, and the collection exists at most once, with EMBED_DIMS.
C10_RaceHarmless ==
  /\ \A r \in Runs : ~Has(errs[r], "create_conflict")
  /\ Cardinality({c \in collections : c.name = COLLECTION}) <= 1
  /\ \A c \in collections : c.name = COLLECTION => c.size = EMBED_DIMS

====
